---- MODULE Spec2Model ----
(***************************************************************************)
(* Ext.ux.Cache (src/Cache.js): a type-preserving, expiring key/value      *)
(* cache layered on a Web Storage backend that stores strings only, or on  *)
(* the in-memory storage of the class where there is no Web Storage.       *)
(*                                                                         *)
(* JavaScript values are tagged records; the tag t is what Ext.typeOf      *)
(* answers for the value.  A serialized document is itself a JavaScript    *)
(* value (an object with the members type and value), as in the source.    *)
(* A stored string is the JSON text of such a document.                    *)
(***************************************************************************)
EXTENDS Integers, Sequences, FiniteSets, Bags, TLC

(* ------------------------------ bounds -------------------------------- *)

\* The clock (Ext.Date.now(), in milliseconds) runs from 0 to MaxClock.
MaxClock == 2

\* The in-memory storage's length falls at most MaxDrift short of the number
\* of its keys.
MaxDrift == 2

(* ------------------------- JavaScript values -------------------------- *)

Undefined == [t |-> "undefined"]
Null      == [t |-> "null"]
Str(s)    == [t |-> "string", s |-> s]
Num(n)    == [t |-> "number", k |-> "fin", n |-> n]
NaN       == [t |-> "number", k |-> "NaN", n |-> 0]
PosInf    == [t |-> "number", k |-> "Infinity", n |-> 0]
NegInf    == [t |-> "number", k |-> "-Infinity", n |-> 0]
Bool(b)   == [t |-> "boolean", b |-> b]
Date(ms)  == [t |-> "date", ms |-> ms]
InvalidDate == [t |-> "date", invalid |-> TRUE]
Arr(a)    == [t |-> "array", a |-> a]
Obj(o)    == [t |-> "object", o |-> o]
EmptyObj  == Obj([m \in {} |-> Undefined])
Fn        == [t |-> "function"]
RegExp    == [t |-> "regexp"]
Element   == [t |-> "element"]

\* A thrown Ext.Error: it propagates through every caller up to the call.
Raise(msg) == [t |-> "error", msg |-> msg]
IsError(v) == v.t = "error"

\* obj.hasOwnProperty(name) and obj[name] on a plain object
HasOwn(obj, name) == obj.t = "object" /\ name \in DOMAIN obj.o
Prop(obj, name) == IF HasOwn(obj, name) THEN obj.o[name] ELSE Undefined

\* The integers a decimal string of the model can denote.
Numerals == (0 - MaxClock - 2) .. (MaxClock + 2)

\* ToNumber of a string: value - 0, +value
StrToNum(s) ==
    IF s = "" THEN Num(0)
    ELSE IF s = "Infinity" THEN PosInf
    ELSE IF s = "-Infinity" THEN NegInf
    ELSE IF \E n \in Numerals : ToString(n) = s
         THEN Num(CHOOSE n \in Numerals : ToString(n) = s)
    ELSE NaN

\* ToNumber: value - 0, +value
ToNumber(v) ==
    CASE v.t = "number"    -> v
      [] v.t = "string"    -> StrToNum(v.s)
      [] v.t = "null"      -> Num(0)
      [] v.t = "boolean"   -> IF v.b THEN Num(1) ELSE Num(0)
      [] v.t = "date"      -> IF "ms" \in DOMAIN v THEN Num(v.ms) ELSE NaN
      [] OTHER             -> NaN

\* ToString of a primitive or a date's number: value + ''
ToStr(v) ==
    CASE v.t = "string"    -> v.s
      [] v.t = "number"    -> IF v.k = "fin" THEN ToString(v.n) ELSE v.k
      [] v.t = "boolean"   -> IF v.b THEN "true" ELSE "false"
      [] v.t = "null"      -> "null"
      [] v.t = "undefined" -> "undefined"
      [] OTHER             -> "[object Object]"

\* ToBoolean: the truth value of a value in a condition
Truthy(v) ==
    CASE v.t = "undefined" -> FALSE
      [] v.t = "null"      -> FALSE
      [] v.t = "string"    -> v.s # ""
      [] v.t = "number"    -> v.k = "fin" /\ v.n # 0
      [] v.t = "boolean"   -> v.b
      [] OTHER             -> TRUE

(* --------------------------- Ext helpers ------------------------------- *)

\* Mutant of Ext.isString: a number passes for a string.
Ext_isString_or_number(v) == v.t \in {"string", "number"}

Ext_isString(v) == v.t = "string"
\* Mutant of Ext.isNumber: the test for a finite number is left out.
Ext_isNumber_typeof(v) == v.t = "number"

\* Ext.isNumber: typeof value === 'number' && isFinite(value)
Ext_isNumber(v) == v.t = "number" /\ v.k = "fin"
\* Ext.isNumeric: !isNaN(parseFloat(value)) && isFinite(value)
Ext_isNumeric(v) ==
    \/ v.t = "number" /\ v.k = "fin"
    \/ v.t = "string" /\ v.s # "" /\ Ext_isNumber(StrToNum(v.s))
Ext_isDate(v) == v.t = "date"
Ext_isObject(v) == v.t = "object"

\* Mutant of Ext.Date.add: a date before the clock reading is moved up to it.
Ext_Date_add_clamped(clock, expires) ==
    Date(IF ToNumber(expires).n < 0 THEN clock ELSE clock + ToNumber(expires).n)

\* Ext.Date.add(new Date(), Ext.Date.MILLI, expires), the clock reading clock
Ext_Date_add(clock, expires) == Date(clock + ToNumber(expires).n)

_get_value_type(value) == value.t

(* ------------------------ serialization engine ------------------------- *)

_serialize_undefined(value) == Obj([type |-> Str("undefined")])

_serialize_null(value) == Obj([type |-> Str("null")])

_serialize_string(value) == Obj([type |-> Str("string"), value |-> value])

\* Mutant of _serialize_number: every number is stored as a number literal.
_serialize_number_raw(value) ==
    Obj([type |-> Str("number"), value |-> value])

_serialize_number(value) ==
    IF value # NegInf /\ value # PosInf /\ ToStr(value) # "NaN"
    THEN Obj([type |-> Str("number"), value |-> value])
    ELSE Obj([type |-> Str("number"), value |-> Str(ToStr(value))])

\* Mutant of _serialize_boolean: the payload is the boolean itself.
_serialize_boolean_native(value) == Obj([type |-> Str("boolean"), value |-> value])

_serialize_boolean(value) ==
    Obj([type |-> Str("boolean"),
         value |-> Str(IF Truthy(value) THEN "true" ELSE "false")])

_serialize_date(value) ==
    Obj([type |-> Str("date"), value |-> Str(ToStr(ToNumber(value)))])

RECURSIVE _serialize_value(_, _)

_serialize_array(array) ==
    LET result == [i \in 1..Len(array.a) |->
                     _serialize_value(_get_value_type(array.a[i]), array.a[i])]
    IN  IF \E i \in DOMAIN result : IsError(result[i])
        THEN result[CHOOSE i \in DOMAIN result : IsError(result[i])
                       /\ \A j \in DOMAIN result : IsError(result[j]) => i <= j]
        ELSE Obj([type |-> Str("array"), value |-> Arr(result)])

_serialize_object(object) ==
    LET result == [i \in DOMAIN object.o |->
                     _serialize_value(_get_value_type(object.o[i]), object.o[i])]
    IN  IF \E i \in DOMAIN result : IsError(result[i])
        THEN result[CHOOSE i \in DOMAIN result : IsError(result[i])]
        ELSE Obj([type |-> Str("object"), value |-> Obj(result)])

_serialize_value(type, value) ==
    CASE type = "undefined" -> _serialize_undefined(value)
      [] type = "null"      -> _serialize_null(value)
      [] type = "string"    -> _serialize_string(value)
      [] type = "number"    -> _serialize_number(value)
      [] type = "boolean"   -> _serialize_boolean(value)
      [] type = "date"      -> _serialize_date(value)
      [] type = "object"    -> _serialize_object(value)
      [] type = "array"     -> _serialize_array(value)
      [] OTHER              -> Raise("Invalid value type")

(* ------------------------------ JSON text ------------------------------ *)

\* What Ext.JSON.encode writes for a value: undefined, a non-finite number
\* and a function are written as null, a date as a quoted date-time.
RECURSIVE JSONValue(_)
JSONValue(v) ==
    CASE v.t = "undefined" -> Null
      [] v.t = "number"    -> IF v.k = "fin" THEN v ELSE Null
      [] v.t = "date"      -> Str("date-time")
      [] v.t = "function"  -> Null
      [] v.t = "array"     -> Arr([i \in DOMAIN v.a |-> JSONValue(v.a[i])])
      [] v.t = "object"    -> Obj([i \in DOMAIN v.o |-> JSONValue(v.o[i])])
      [] OTHER             -> v

\* The stored string: the JSON text, named by the value it denotes.
Ext_JSON_encode(v) == [t |-> "text", json |-> JSONValue(v)]

\* A stored string that is not JSON text makes Ext.JSON.decode raise.
Ext_JSON_decode(text) ==
    IF text.t = "text" THEN text.json
    ELSE Raise("You're trying to decode an invalid JSON String")

(* ----------------------- deserialization engine ------------------------ *)

_check_serialized(value) ==
    IF \/ ~Ext_isObject(value)
       \/ ~HasOwn(value, "type")
       \/ /\ Prop(value, "type") # Str("undefined")
          /\ Prop(value, "type") # Str("null")
          /\ ~HasOwn(value, "value")
    THEN Raise("Invalid serialized value")
    ELSE Bool(TRUE)

_deserialize_string(value) == Str(ToStr(value))

_deserialize_number(value) ==
    CASE value = Str("-Infinity") -> NegInf
      [] value = Str("Infinity")  -> PosInf
      [] value = Str("NaN")       -> NaN
      [] OTHER                    -> ToNumber(value)

_deserialize_boolean(value) ==
    CASE value = Str("true")  -> Bool(TRUE)
      [] value = Str("false") -> Bool(FALSE)
      [] OTHER                -> Raise("Invalid serialized boolean value")

_deserialize_date(value) ==
    LET n == ToNumber(value)
    IN  IF n.k = "fin" THEN Date(n.n) ELSE InvalidDate

RECURSIVE _deserialize_value(_, _)

\* One item of the loop of _deserialize_array and _deserialize_object
\* Reading a member of undefined or null throws a TypeError.
TypeError == Raise("TypeError")

\* The members a plain object inherits (one of them stands for all):
\* functionTable and the in-memory items are plain objects.
ObjectPrototype == {"constructor"}

\* Object(value), the inherited member constructor called as a function (a
\* wrapped primitive is written as the primitive)
Object_call(value) ==
    IF value.t \in {"undefined", "null"} THEN EmptyObj ELSE value

\* One item of the loop of _deserialize_array and _deserialize_object
DeserializeItem(item) ==
    LET item_type  == Prop(item, "type")
        item_value == Prop(item, "value")
    IN  IF item.t \in {"undefined", "null"} THEN TypeError
        ELSE IF IsError(_check_serialized(item))
        THEN _check_serialized(item)
        ELSE _deserialize_value(item_type, item_value)

\* The loop runs over value.length items: none when value has no length,
\* the characters when value is a string.
_deserialize_array(value) ==
    LET items  == IF value.t = "array" THEN value.a ELSE <<>>
        result == [i \in DOMAIN items |-> DeserializeItem(items[i])]
    IN  IF value.t \in {"undefined", "null"} THEN TypeError
        ELSE IF value.t = "string" /\ value.s # ""
        THEN Raise("Invalid serialized value")
        ELSE IF \E i \in DOMAIN result : IsError(result[i])
        THEN result[CHOOSE i \in DOMAIN result : IsError(result[i])
                       /\ \A j \in DOMAIN result : IsError(result[j]) => i <= j]
        ELSE Arr(result)

\* The loop runs over the enumerable members of value: none for undefined,
\* null, a number or a boolean, the characters of a string, the items of an
\* array.
_deserialize_object(value) ==
    LET items  == CASE value.t = "object" -> value.o
                    [] value.t = "array"  ->
                         [i \in {ToString(j - 1) : j \in DOMAIN value.a} |->
                            value.a[CHOOSE j \in DOMAIN value.a : ToString(j - 1) = i]]
                    [] OTHER              -> [m \in {} |-> Undefined]
        result == [i \in DOMAIN items |-> DeserializeItem(items[i])]
    IN  IF value.t = "string" /\ value.s # ""
        THEN Raise("Invalid serialized value")
        ELSE IF \E i \in DOMAIN result : IsError(result[i])
        THEN result[CHOOSE i \in DOMAIN result : IsError(result[i])]
        ELSE Obj(result)

\* functionTable[type] and the call of the function found there
_deserialize_value(type, value) ==
    LET fn == ToStr(type)
    IN  CASE fn = "undefined" -> Undefined
          [] fn = "null"      -> Null
          [] fn = "string"    -> _deserialize_string(value)
          [] fn = "number"    -> _deserialize_number(value)
          [] fn = "boolean"   -> _deserialize_boolean(value)
          [] fn = "date"      -> _deserialize_date(value)
          [] fn = "array"     -> _deserialize_array(value)
          [] fn = "object"    -> _deserialize_object(value)
          [] fn \in ObjectPrototype -> Object_call(value)
          [] OTHER            -> Raise("Invalid serialized value type")

(* ---------------------------- freeze / thaw ---------------------------- *)

_freeze(me, value) ==
    IF ~me.webStorage THEN value
    ELSE LET result == _serialize_value(_get_value_type(value), value)
         IN  IF IsError(result) THEN result ELSE Ext_JSON_encode(result)

_thaw(me, value) ==
    IF ~me.webStorage THEN value
    ELSE LET thawed == Ext_JSON_decode(value)
         IN  IF IsError(thawed) THEN thawed
             ELSE IF thawed.t \in {"undefined", "null"} THEN TypeError
             ELSE _deserialize_value(Prop(thawed, "type"), Prop(thawed, "value"))

(* ------------------------------- state --------------------------------- *)

VARIABLES
    storage,    \* me.storage: window.localStorage, or the in-memory storage
    now,        \* the clock, in milliseconds
    last,       \* the last call of the facade: its arguments and its outcome
    written     \* per backend key of a cache: the entry the last set call on
                \* it was asked to write, until a set, remove or clear on it

vars == <<storage, now, last, written>>

(* ------------------------------ the backend ---------------------------- *)

\* window.localStorage: a map from key strings to stored strings, shared by
\* every cache instance and by other consumers.
WebStorage(items) == [kind |-> "web", items |-> items]

Storage_getItem(st, key) ==
    IF key \in DOMAIN st.items THEN st.items[key] ELSE Null

Storage_setItem(st, key, value) ==
    [st EXCEPT !.items = [k \in DOMAIN st.items \cup {key} |->
                            IF k = key THEN value ELSE st.items[k]]]

Storage_removeItem(st, key) ==
    [st EXCEPT !.items = [k \in DOMAIN st.items \ {key} |-> st.items[k]]]

\* The in-memory storage of the class: items is a plain object ({}), keys an
\* array, length a number.
MemoryStorage == [kind |-> "memory", items |-> [k \in {} |-> Undefined],
                  keys |-> <<>>, length |-> 0]

\* this.items[key]: the object's own member, or the one it inherits
items_at(st, key) ==
    IF key \in DOMAIN st.items THEN st.items[key]
    ELSE IF key \in ObjectPrototype THEN Fn
    ELSE Undefined

storage_key(st, index) == st.keys[index + 1]

storage_getItem(st, key) == items_at(st, key)

storage_setItem(st, key, value) ==
    LET me == IF ~Truthy(items_at(st, key))
              THEN [st EXCEPT !.keys = Append(@, key), !.length = @ + 1]
              ELSE st
    IN  [me EXCEPT !.items = [k \in DOMAIN st.items \cup {key} |->
                                IF k = key THEN value ELSE st.items[k]]]

\* Ext.Array.remove(array, item): the first occurrence of item is spliced out
Ext_Array_remove(array, item) ==
    IF \A i \in DOMAIN array : array[i] # item THEN array
    ELSE LET at == CHOOSE i \in DOMAIN array :
                      array[i] = item /\ \A j \in 1..(i - 1) : array[j] # item
         IN  SubSeq(array, 1, at - 1) \o SubSeq(array, at + 1, Len(array))

storage_removeItem(st, key) ==
    IF ~Truthy(items_at(st, key)) THEN st
    ELSE [st EXCEPT !.keys = Ext_Array_remove(@, key),
                    !.items = [k \in DOMAIN st.items \ {key} |-> st.items[k]],
                    !.length = @ - 1]

storage_clear(st) ==
    [st EXCEPT !.items = [k \in {} |-> Undefined], !.keys = <<>>, !.length = 0]

\* me.storage.getItem, setItem, removeItem: the method of the object at hand
getItem(st, key) ==
    IF st.kind = "web" THEN Storage_getItem(st, key) ELSE storage_getItem(st, key)

setItem(st, key, value) ==
    IF st.kind = "web" THEN Storage_setItem(st, key, value)
    ELSE storage_setItem(st, key, value)

removeItem(st, key) ==
    IF st.kind = "web" THEN Storage_removeItem(st, key)
    ELSE storage_removeItem(st, key)

\* The keys storage.key(i) answers for i from 0 up to storage.length; Web
\* Storage answers each of its keys once, in an order of its choice.
Visited(st) ==
    IF st.kind = "web" THEN DOMAIN st.items
    ELSE {storage_key(st, i) : i \in 0..(st.length - 1)}

\* key.indexOf(pfx)
indexOf(key, pfx) ==
    LET at == {i \in 0..(Len(key) - Len(pfx)) :
                  pfx = "" \/ SubSeq(key, i + 1, i + Len(pfx)) = pfx}
    IN  IF at = {} THEN 0 - 1
        ELSE CHOOSE i \in at : \A j \in at : i <= j

\* key.substr(start)
substr(key, start) == SubSeq(key, start + 1, Len(key))

(* ------------------------------ the facade ----------------------------- *)

\* Mutant of remove: every backend key that contains prefix + key goes.
remove_matching(me, st, key) ==
    IF st.kind = "web"
    THEN WebStorage([k \in {x \in DOMAIN st.items :
                              indexOf(x, me.keyPrefix \o ToStr(key)) = 0 - 1}
                       |-> st.items[k]])
    ELSE storage_removeItem(st, me.keyPrefix \o ToStr(key))

remove(me, st, key) == removeItem(st, me.keyPrefix \o ToStr(key))

\* The short key _get_keys pushes for one backend key, and whether it does
ShortKey(me, key) == substr(key, indexOf(key, me.keyPrefix) + Len(me.keyPrefix))
Listed(me, key) == indexOf(key, me.keyPrefix) # 0 - 1

\* The array of short keys, in the backend's order: as a bag, each short key
\* with the number of times it is pushed.
_get_keys(me, st) ==
    LET shorts == {ShortKey(me, key) : key \in {x \in Visited(st) : Listed(me, x)}}
    IN  [s \in shorts |->
           Cardinality({key \in Visited(st) :
                           Listed(me, key) /\ ShortKey(me, key) = s})]

keys(me, st) == _get_keys(me, st)

_fetch_value(me, st, key) ==
    LET value == getItem(st, me.keyPrefix \o ToStr(key))
    IN  IF Truthy(value) THEN _thaw(me, value) ELSE Undefined

has(me, st, key) ==
    LET item == _fetch_value(me, st, key)
    IN  IF IsError(item) THEN item ELSE Bool(item.t # "undefined")

\* Mutant of get: an entry expires as soon as the clock reaches its expiration.
get_expires_at(me, st, clock, key) ==
    LET item == _fetch_value(me, st, key)
    IN  IF IsError(item) THEN [storage |-> st, ret |-> item]
        ELSE IF item.t = "undefined" THEN [storage |-> st, ret |-> Undefined]
        ELSE IF /\ Truthy(Prop(item, "expires"))
                /\ LET e == ToNumber(Prop(item, "expires"))
                   IN  e.k = "fin" /\ e.n <= clock
        THEN [storage |-> remove(me, st, key), ret |-> Undefined]
        ELSE [storage |-> st, ret |-> Prop(item, "value")]

\* Mutant of get: an entry without expiration counts as one that expired at
\* clock reading 0.
get_evicts_unexpiring(me, st, clock, key) ==
    LET item == _fetch_value(me, st, key)
    IN  IF IsError(item) THEN [storage |-> st, ret |-> item]
        ELSE IF item.t = "undefined" THEN [storage |-> st, ret |-> Undefined]
        ELSE IF item.t = "null" THEN [storage |-> st, ret |-> TypeError]
        ELSE IF LET e == IF Truthy(Prop(item, "expires"))
                         THEN ToNumber(Prop(item, "expires"))
                         ELSE ToNumber(Num(0))
                IN  e.k = "fin" /\ e.n < clock
        THEN [storage |-> remove(me, st, key), ret |-> Undefined]
        ELSE [storage |-> st, ret |-> Prop(item, "value")]

\* Mutant of get: finding an expired entry, get drops every entry of the
\* cache.
get_evicts_all(me, st, clock, key) ==
    LET item == _fetch_value(me, st, key)
    IN  IF IsError(item) THEN [storage |-> st, ret |-> item]
        ELSE IF item.t = "undefined" THEN [storage |-> st, ret |-> Undefined]
        ELSE IF item.t = "null" THEN [storage |-> st, ret |-> TypeError]
        ELSE IF /\ Truthy(Prop(item, "expires"))
                /\ LET e == ToNumber(Prop(item, "expires"))
                   IN  e.k = "fin" /\ e.n < clock
        THEN [storage |-> IF st.kind = "web"
                          THEN WebStorage([k \in {x \in DOMAIN st.items : ~Listed(me, x)}
                                             |-> st.items[k]])
                          ELSE storage_clear(st),
              ret |-> Undefined]
        ELSE [storage |-> st, ret |-> Prop(item, "value")]

\* get: the storage it leaves and what it returns (or raises)
get(me, st, clock, key) ==
    LET item == _fetch_value(me, st, key)
    IN  IF IsError(item) THEN [storage |-> st, ret |-> item]
        ELSE IF item.t = "undefined" THEN [storage |-> st, ret |-> Undefined]
        ELSE IF item.t = "null" THEN [storage |-> st, ret |-> TypeError]
        ELSE IF /\ Truthy(Prop(item, "expires"))
                /\ LET e == ToNumber(Prop(item, "expires"))
                   IN  e.k = "fin" /\ e.n < clock
        THEN [storage |-> remove(me, st, key), ret |-> Undefined]
        ELSE [storage |-> st, ret |-> Prop(item, "value")]

\* Mutant of set: a set without expiration updates the value of the entry in
\* place, so the entry keeps the expiration it had.
set_keeps_expiration(me, st, clock, key, value, expires) ==
    LET old  == _fetch_value(me, st, key)
        exp  == IF Ext_isDate(expires) THEN expires
                ELSE IF Ext_isNumeric(expires) THEN Ext_Date_add(clock, expires)
                ELSE IF old.t = "object" THEN Prop(old, "expires")
                ELSE Undefined
        frozen == _freeze(me, Obj([value |-> value, expires |-> exp]))
    IN  IF IsError(frozen) THEN [storage |-> st, ret |-> frozen]
        ELSE [storage |-> setItem(st, me.keyPrefix \o ToStr(key), frozen),
              ret |-> value]

\* Mutant of set: the list of the types set refuses lacks regexp.
set_tries_regexp(me, st, clock, key, value, expires) ==
    LET type == _get_value_type(value)
        exp  == IF Ext_isDate(expires) THEN expires
                ELSE IF Ext_isNumeric(expires) THEN Ext_Date_add(clock, expires)
                ELSE Undefined
        removed == remove(me, st, key)
        frozen  == _freeze(me, Obj([value |-> value, expires |-> exp]))
    IN  IF ~Ext_isString(key) \/ key = Str("")
        THEN [storage |-> st, ret |-> Raise("Cache key must be a non-empty string")]
        ELSE IF value.t = "undefined"
        THEN [storage |-> st,
              ret |-> Raise("Cache value must be defined primitive, object or null")]
        ELSE IF type \in {"function", "element", "textnode", "whitespace"}
        THEN [storage |-> st, ret |-> Raise("Cache cannot store " \o type \o " type values")]
        ELSE IF expires.t # "undefined" /\ ~Ext_isNumber(expires) /\ ~Ext_isDate(expires)
        THEN [storage |-> st,
              ret |-> Raise("Cache expiration modifier must be a number of milliseconds or Date object")]
        ELSE IF IsError(frozen)
        THEN [storage |-> removed, ret |-> frozen]
        ELSE [storage |-> setItem(removed, me.keyPrefix \o ToStr(key), frozen),
              ret |-> value]

\* set: the storage it leaves and what it returns (or raises)
set(me, st, clock, key, value, expires) ==
    LET type == _get_value_type(value)
        exp  == IF Ext_isDate(expires) THEN expires
                ELSE IF Ext_isNumeric(expires) THEN Ext_Date_add(clock, expires)
                ELSE Undefined
        removed == remove(me, st, key)
        frozen  == _freeze(me, Obj([value |-> value, expires |-> exp]))
    IN  IF ~Ext_isString(key) \/ key = Str("")
        THEN [storage |-> st, ret |-> Raise("Cache key must be a non-empty string")]
        ELSE IF value.t = "undefined"
        THEN [storage |-> st,
              ret |-> Raise("Cache value must be defined primitive, object or null")]
        ELSE IF type \in {"function", "regexp", "element", "textnode", "whitespace"}
        THEN [storage |-> st, ret |-> Raise("Cache cannot store " \o type \o " type values")]
        ELSE IF expires.t # "undefined" /\ ~Ext_isNumber(expires) /\ ~Ext_isDate(expires)
        THEN [storage |-> st,
              ret |-> Raise("Cache expiration modifier must be a number of milliseconds or Date object")]
        ELSE IF IsError(frozen)
        THEN [storage |-> removed, ret |-> frozen]
        ELSE [storage |-> setItem(removed, me.keyPrefix \o ToStr(key), frozen),
              ret |-> value]

\* The loop of clear: remove each key of the list
RECURSIVE RemoveEach(_, _, _)
RemoveEach(me, st, list) ==
    IF list = {} THEN st
    ELSE LET key == CHOOSE k \in list : TRUE
         IN  RemoveEach(me, remove(me, st, Str(key)), list \ {key})

\* Mutant of clear: the whole backend is wiped.
clear_all(me, st) ==
    IF st.kind = "web" THEN WebStorage([k \in {} |-> Null]) ELSE storage_clear(st)

clear(me, st) ==
    IF ~me.webStorage THEN storage_clear(st)
    ELSE RemoveEach(me, st, DOMAIN keys(me, st))

(* --------------------------- the state machine ------------------------- *)

\* Where the window has Web Storage: two cache instances on the same
\* backend, configured with different prefixes.  Where it has none: a cache
\* on the in-memory storage, whose prefix the constructor empties.
CacheA == [id |-> "A", keyPrefix |-> "A.", webStorage |-> TRUE]
CacheB == [id |-> "B", keyPrefix |-> "B.", webStorage |-> TRUE]
CacheM == [id |-> "M", keyPrefix |-> "", webStorage |-> FALSE]
\* A second cache where there is no Web Storage: its storage is the storage
\* member of the class, as for every instance.
CacheN == [id |-> "N", keyPrefix |-> "", webStorage |-> FALSE]
Caches == IF storage.kind = "web" THEN {CacheA, CacheB} ELSE {CacheM}

\* The logical keys each instance is called with
KeysOf(me) ==
    CASE me = CacheA -> {"k", "B.k"}
      [] me = CacheB -> {"k"}
      [] me = CacheM -> {"k", "constructor"}
      [] me = CacheN -> {"k"}
Values == {Str("foo"), Null}
Expirations == {Undefined, Num(0 - 1), Num(0), Num(1), Date(1)}
\* Entries that expire are written under one key, and on the in-memory
\* storage also under the key that names an inherited member; the other keys
\* hold entries that do not expire.
ExpirationsOf(me, k) ==
    IF me # CacheB /\ k = "k" THEN Expirations
    ELSE IF me = CacheM /\ k = "constructor" THEN {Undefined, Num(0 - 1)}
    ELSE {Undefined}

\* What another consumer of the backend may have stored
ForeignKey == "xA.k"
EmptyStorage == WebStorage([k \in {} |-> Null])
ForeignStorage == WebStorage([k \in {ForeignKey} |-> Str("bar")])

Slot(me, key) == me.keyPrefix \o ToStr(key)
Slots == {Slot(me, Str(k)) : me \in {CacheA, CacheB, CacheM},
                             k \in {"k", "B.k", "constructor"}}
\* The length of the in-memory storage can fall further
Drifts(st) == st.kind = "memory" => Len(st.keys) - st.length < MaxDrift
NoWrite == [value |-> Undefined, expires |-> Undefined]

\* The expiration a set call asks for: the date itself, or the clock reading
\* plus the number of milliseconds
Resolved(expires) ==
    CASE expires.t = "date"   -> expires
      [] expires.t = "number" -> Date(now + expires.n)
      [] OTHER                -> Undefined

\* The expiration of the entry stored under a key, Null when there is none
Replaced(me, key) ==
    LET item == _fetch_value(me, storage, key)
    IN  IF item.t = "object" THEN Prop(item, "expires") ELSE Null

Call(op, me, key, value, expires, ret, list, replaced) ==
    [op |-> op, id |-> me.id, c |-> me.keyPrefix, key |-> key, value |-> value,
     expires |-> expires, ret |-> ret, list |-> list, replaced |-> replaced]

Init ==
    /\ storage \in {EmptyStorage, ForeignStorage, MemoryStorage}
    /\ now = 0
    /\ last = [op |-> "new", id |-> "", c |-> "", key |-> Undefined, value |-> Undefined,
               expires |-> Undefined, ret |-> Undefined, list |-> EmptyBag,
               replaced |-> Null]
    /\ written = [s \in Slots |-> NoWrite]

Set(me, key, value, expires) ==
    LET r == set(me, storage, now, key, value, expires)
    IN  /\ Drifts(storage)
        /\ storage' = r.storage
        /\ last' = Call("set", me, key, value, expires, r.ret, EmptyBag,
                        Replaced(me, key))
        /\ written' = IF Slot(me, key) \notin Slots THEN written
                      ELSE [written EXCEPT ![Slot(me, key)] =
                              IF IsError(r.ret) THEN NoWrite
                              ELSE [value |-> value, expires |-> Resolved(expires)]]
        /\ UNCHANGED now

Get(me, key) ==
    LET r == get(me, storage, now, key)
    IN  /\ storage' = r.storage
        /\ last' = Call("get", me, key, Undefined, Undefined, r.ret, EmptyBag, Null)
        /\ UNCHANGED <<now, written>>

Has(me, key) ==
    /\ last' = Call("has", me, key, Undefined, Undefined, has(me, storage, key),
                    EmptyBag, Null)
    /\ UNCHANGED <<storage, now, written>>

Keys(me) ==
    /\ last' = Call("keys", me, Undefined, Undefined, Undefined, Undefined,
                    keys(me, storage), Null)
    /\ UNCHANGED <<storage, now, written>>

Remove(me, key) ==
    /\ Drifts(storage)
    /\ storage' = remove(me, storage, key)
    /\ last' = Call("remove", me, key, Undefined, Undefined, Undefined, EmptyBag, Null)
    /\ written' = [written EXCEPT ![Slot(me, key)] = NoWrite]
    /\ UNCHANGED now

Clear(me) ==
    /\ storage' = clear(me, storage)
    /\ last' = Call("clear", me, Undefined, Undefined, Undefined, Undefined,
                    IF me.webStorage THEN keys(me, storage) ELSE EmptyBag, Null)
    /\ written' = [s \in Slots |->
                     IF \E k \in KeysOf(me) : s = Slot(me, Str(k))
                     THEN NoWrite ELSE written[s]]
    /\ UNCHANGED now

\* Time passes between two calls
Tick ==
    /\ now < MaxClock
    /\ now' = now + 1
    /\ UNCHANGED <<storage, last, written>>

DoSet == \E me \in Caches : \E k \in KeysOf(me), v \in Values :
            \E e \in ExpirationsOf(me, k) : Set(me, Str(k), v, e)
DoGet == \E me \in Caches : \E k \in KeysOf(me) : Get(me, Str(k))
DoHas == \E me \in Caches : \E k \in KeysOf(me) : Has(me, Str(k))
DoKeys == \E me \in Caches : Keys(me)
DoRemove == \E me \in Caches : \E k \in KeysOf(me) : Remove(me, Str(k))
DoClear == \E me \in Caches : Clear(me)

Next == DoSet \/ DoGet \/ DoHas \/ DoKeys \/ DoRemove \/ DoClear \/ Tick

Spec == Init /\ [][Next]_vars

(* ------------------- round trips of storable values -------------------- *)

RTLeaves ==
    {Null, Str(""), Str("foo"), Num(0), Num(1), Num(0 - 10), Num(42),
     NaN, PosInf, NegInf, Bool(TRUE), Bool(FALSE), Date(0), Date(1)}
RTMembers == RTLeaves \cup {Undefined}
RTFlat ==
    {Arr(<<>>), EmptyObj}
    \cup {Arr(<<x>>) : x \in RTMembers}
    \cup {Obj([foo |-> x]) : x \in RTMembers}
    \cup {Arr(<<Str("foo"), Str("bar"), PosInf>>),
          Arr(<<Undefined, NegInf, Str("qux"), Null>>),
          Obj([answer |-> Num(42), name |-> Str("Quux"), money |-> PosInf])}
RTNested ==
    {Arr(<<x>>) : x \in RTFlat}
    \cup {Obj([foo |-> x]) : x \in RTFlat}
    \cup {Arr(<<Str("foo"),
                Arr(<<PosInf, Date(1), Bool(TRUE),
                      Arr(<<Str("bar"), Undefined, Str("qux")>>)>>)>>),
          Obj([x |-> Num(1), y |-> Arr(<<Num(1), Str("two"), Null>>)])}
RTValues == RTLeaves \cup RTFlat \cup RTNested

\* The window has Web Storage
InitWeb == Init /\ storage.kind = "web"

RTSet == \E v \in RTValues : Set(CacheA, Str("k"), v, Undefined)
RTGet == Get(CacheA, Str("k"))
NextRT == RTSet \/ RTGet
SpecRT == InitWeb /\ [][NextRT]_vars

(* ------------------------- calls that set refuses ---------------------- *)

BadKeys == {Str(""), Num(1), Null, Undefined, Date(1)}
BadValues == {Undefined, Fn, RegExp, Element}
NestedBadValues ==
    {Arr(<<Fn>>), Obj([foo |-> RegExp]), Arr(<<Str("foo"), Arr(<<Element>>)>>)}
BadExpirations == {Null, Str("qux"), EmptyObj, Arr(<<>>), NaN, PosInf, NegInf}

ErrCalls ==
    {<<Str("k"), v, e>> : v \in Values, e \in Expirations \cup {InvalidDate}}
    \cup {<<key, v, e>> : key \in BadKeys,
                          v \in {Str("foo"), Undefined, Fn, Arr(<<Fn>>)},
                          e \in {Undefined, Num(1), Null}}
    \cup {<<Str("k"), v, Undefined>> : v \in BadValues \cup NestedBadValues}
    \cup {<<Str("k"), v, Null>> : v \in BadValues}
    \cup {<<Str("k"), Str("foo"), e>> : e \in BadExpirations}

\* The cache the calls are made on: on Web Storage, or on the in-memory storage
ErrCache == IF storage.kind = "web" THEN CacheA ELSE CacheM

ErrSet == \E c \in ErrCalls : Set(ErrCache, c[1], c[2], c[3])
ErrGet == Get(ErrCache, Str("k"))
ErrHas == Has(ErrCache, Str("k"))
NextErr == ErrSet \/ ErrGet \/ ErrHas \/ Tick
SpecErr == Init /\ [][NextErr]_vars

(* ------------------ two caches on the in-memory storage ---------------- *)

InitMemory == Init /\ storage.kind = "memory"

MemoryCaches == {CacheM, CacheN}
MemSet == \E me \in MemoryCaches : \E v \in Values, e \in {Undefined, Num(0 - 1)} :
             Set(me, Str("k"), v, e)
MemGet == \E me \in MemoryCaches : Get(me, Str("k"))
MemHas == \E me \in MemoryCaches : Has(me, Str("k"))
MemKeys == \E me \in MemoryCaches : Keys(me)
MemRemove == \E me \in MemoryCaches : Remove(me, Str("k"))
MemClear == \E me \in MemoryCaches : Clear(me)
NextMemory == MemSet \/ MemGet \/ MemHas \/ MemKeys \/ MemRemove \/ MemClear \/ Tick
SpecMemory == InitMemory /\ [][NextMemory]_vars

(* ------------- one sequence of calls on both kinds of backend ----------- *)

\* A cache on Web Storage that no one else uses and a cache on the in-memory
\* storage, both new, are given the same calls at the same clock readings:
\* storage holds the backend of each, last the answers of each.
BothStorages(web, memory) == [kind |-> "both", web |-> web, memory |-> memory]
BothKeys == {"k", "constructor"}
BothExpirations == {Undefined, Num(0 - 1), Num(1)}
Both(op, key, value, expires, web, memory) ==
    [op |-> op, id |-> "both", c |-> "", key |-> key, value |-> value,
     expires |-> expires, ret |-> [web |-> web, memory |-> memory],
     list |-> EmptyBag, replaced |-> Null]

InitBoth ==
    /\ storage = BothStorages(EmptyStorage, MemoryStorage)
    /\ now = 0
    /\ last = Both("new", Undefined, Undefined, Undefined, Undefined, Undefined)
    /\ written = [s \in Slots |-> NoWrite]

BothSet ==
    \E k \in BothKeys, v \in Values, e \in BothExpirations :
        LET w == set(CacheA, storage.web, now, Str(k), v, e)
            m == set(CacheM, storage.memory, now, Str(k), v, e)
        IN  /\ Drifts(storage.memory)
            /\ storage' = BothStorages(w.storage, m.storage)
            /\ last' = Both("set", Str(k), v, e, w.ret, m.ret)
            /\ UNCHANGED <<now, written>>

BothGet ==
    \E k \in BothKeys :
        LET w == get(CacheA, storage.web, now, Str(k))
            m == get(CacheM, storage.memory, now, Str(k))
        IN  /\ storage' = BothStorages(w.storage, m.storage)
            /\ last' = Both("get", Str(k), Undefined, Undefined, w.ret, m.ret)
            /\ UNCHANGED <<now, written>>

BothHas ==
    \E k \in BothKeys :
        /\ last' = Both("has", Str(k), Undefined, Undefined,
                        has(CacheA, storage.web, Str(k)),
                        has(CacheM, storage.memory, Str(k)))
        /\ UNCHANGED <<storage, now, written>>

\* keys(): the answers as sets
BothKeysCall ==
    /\ last' = Both("keys", Undefined, Undefined, Undefined,
                    BagToSet(keys(CacheA, storage.web)),
                    BagToSet(keys(CacheM, storage.memory)))
    /\ UNCHANGED <<storage, now, written>>

BothRemove ==
    \E k \in BothKeys :
        /\ Drifts(storage.memory)
        /\ storage' = BothStorages(remove(CacheA, storage.web, Str(k)),
                                   remove(CacheM, storage.memory, Str(k)))
        /\ last' = Both("remove", Str(k), Undefined, Undefined, Undefined, Undefined)
        /\ UNCHANGED <<now, written>>

BothClear ==
    /\ storage' = BothStorages(clear(CacheA, storage.web),
                               clear(CacheM, storage.memory))
    /\ last' = Both("clear", Undefined, Undefined, Undefined, Undefined, Undefined)
    /\ UNCHANGED <<now, written>>

NextBoth == BothSet \/ BothGet \/ BothHas \/ BothKeysCall \/ BothRemove
              \/ BothClear \/ Tick
SpecBoth == InitBoth /\ [][NextBoth]_vars

(* --------------------- the documents a cache stores -------------------- *)

\* Entries of every storable kind are written and removed under one key of
\* a cache on Web Storage.
WireRemove == Remove(CacheA, Str("k"))
NextWire == RTSet \/ RTGet \/ WireRemove
SpecWire == InitWeb /\ [][NextWire]_vars

(* ------------------ documents the cache did not write ------------------ *)

\* The document of an entry: its value node and its expires node
EntryDoc(value, expires) ==
    Obj([type |-> Str("object"),
         value |-> Obj([value |-> value, expires |-> expires])])
NoExpires == Obj([type |-> Str("undefined")])

\* Nodes that are not of the storage format
BadNodes ==
    {EmptyObj,
     Obj([value |-> Str("foo")]),
     Obj([type |-> Str("string")]),
     Obj([type |-> Str("object")]),
     Obj([type |-> Str("array")]),
     Obj([type |-> Str("boolean")]),
     Obj([type |-> Str("bogus"), value |-> Num(1)]),
     Obj([type |-> Str("constructor"), value |-> Num(1)])}

\* What another writer may have left under the key of a cache: a bad node as
\* the document, as the value of an entry, or deeper in the value
ForeignDocs ==
    BadNodes
    \cup {EntryDoc(n, NoExpires) : n \in BadNodes}
    \cup {EntryDoc(Obj([type |-> Str("array"), value |-> Arr(<<n>>)]), NoExpires) :
             n \in BadNodes}
    \cup {EntryDoc(Obj([type |-> Str("string"), value |-> Str("foo")]), n) :
             n \in BadNodes}

InitDocs ==
    /\ storage \in {WebStorage([k \in {"A.k"} |-> Ext_JSON_encode(doc)]) :
                       doc \in ForeignDocs}
    /\ now = 0
    /\ last = [op |-> "new", id |-> "", c |-> "", key |-> Undefined, value |-> Undefined,
               expires |-> Undefined, ret |-> Undefined, list |-> EmptyBag,
               replaced |-> Null]
    /\ written = [s \in Slots |-> NoWrite]

DocGet == Get(CacheA, Str("k"))
DocHas == Has(CacheA, Str("k"))
DocKeys == Keys(CacheA)
DocRemove == Remove(CacheA, Str("k"))
NextDocs == DocGet \/ DocHas \/ DocKeys \/ DocRemove \/ Tick
SpecDocs == InitDocs /\ [][NextDocs]_vars

(* ------------------------------- claims -------------------------------- *)

CacheOf(prefix) == CHOOSE me \in {CacheA, CacheB, CacheM} : me.keyPrefix = prefix
StartsWith(key, pfx) == Len(key) >= Len(pfx) /\ SubSeq(key, 1, Len(pfx)) = pfx
\* The backend keys that belong to a cache, and the logical keys they stand for
OwnKeys(me, st) == {key \in DOMAIN st.items : StartsWith(key, me.keyPrefix)}
LogicalKeys(me, st) == {substr(key, Len(me.keyPrefix)) : key \in OwnKeys(me, st)}
\* A step that is a call of the facade (time stands still during a call)
IsCall(op) == last'.op = op /\ now' = now
\* The entry stored under a key of a cache expires before the clock reading
StoredExpired(me, st, clock, key) ==
    /\ Slot(me, key) \in DOMAIN st.items
    /\ LET e == Prop(_fetch_value(me, st, key), "expires")
       IN  e.t = "date" /\ e.ms < clock

\* C1: on the string-only backend, get(k) after set(k, v) with no expiration
\* returns a value with v's type tag and v's content, for every storable v
\* (nested undefined members included; a date by its epoch milliseconds, NaN
\* as NaN).
C1_RoundTrip ==
    \A me \in Caches : \A k \in KeysOf(me) :
        LET w == written[Slot(me, Str(k))]
            r == get(me, storage, now, Str(k)).ret
        IN  (w # NoWrite /\ w.expires = Undefined)
                => (r.t = w.value.t /\ r = w.value)

C1_Witness ==
    /\ last.op = "get"
    /\ last.ret = Arr(<<Undefined, NegInf, Str("qux"), Null>>)
    /\ written[Slot(CacheA, Str("k"))].value = last.ret

\* C2: an entry written by set(k, v, e) with resolved expiration E (the clock
\* reading plus e, or the date e) is returned by get(k) while now <= E and is
\* Absent once now > E, as long as no set, remove or clear touched k.
C2_ExpiryWindow ==
    \A me \in Caches : \A k \in KeysOf(me) :
        LET w == written[Slot(me, Str(k))]
            r == get(me, storage, now, Str(k)).ret
        IN  w # NoWrite =>
              IF w.expires.t = "date" /\ now > w.expires.ms
              THEN r = Undefined
              ELSE r = w.value

\* An entry whose expiration is exactly the clock reading has just been read.
C2_Witness ==
    /\ last.op = "get" /\ last.c = "A." /\ last.key = Str("k")
    /\ written["A.k"] # NoWrite
    /\ written["A.k"].expires = Date(now)
    /\ last.ret = written["A.k"].value
    /\ "A.k" \in DOMAIN storage.items

\* C3: a get(k) that finds an entry expired before the clock reading returns
\* Absent and removes the entry; right after it has(k) is false and keys()
\* does not contain k.
C3_LazyEviction ==
    [][\A me \in Caches : \A k \in KeysOf(me) :
          (/\ IsCall("get") /\ last'.c = me.keyPrefix /\ last'.key = Str(k)
           /\ StoredExpired(me, storage, now, Str(k)))
          => (/\ last'.ret = Undefined
              /\ Slot(me, Str(k)) \notin DOMAIN storage'.items
              /\ has(me, storage', Str(k)) = Bool(FALSE)
              /\ ~BagIn(k, keys(me, storage')))]_vars

\* C4: after a successful set(k, v2) with no expiration that replaces an
\* entry, the stored entry has no expiration and get(k) returns v2 at every
\* later clock reading, also past the expiration of the entry it replaced.
C4_OverwriteReplaces ==
    (/\ last.op = "set" /\ ~IsError(last.ret)
     /\ last.expires = Undefined /\ last.replaced # Null)
    => LET me == CacheOf(last.c)
       IN  /\ Replaced(me, last.key) = Undefined
           /\ \A clock \in now..(MaxClock + 1) :
                 get(me, storage, clock, last.key).ret = last.value

\* The clock is past the expiration of the entry the set replaced.
C4_Witness ==
    /\ last.op = "set" /\ ~IsError(last.ret) /\ last.expires = Undefined
    /\ last.replaced.t = "date" /\ last.replaced.ms < now
    /\ get(CacheOf(last.c), storage, now, last.key).ret = last.value

\* C5: a set that raises an error leaves the backend as it was: the same
\* keys with the same stored documents.
C5_NoPartialWrite ==
    [][(IsCall("set") /\ IsError(last'.ret)) => storage' = storage]_vars

\* C6: clear() leaves every backend key that does not start with the
\* cache's prefix in place with its stored value.
C6_ClearKeepsForeign ==
    [][\A me \in Caches :
          (IsCall("clear") /\ last'.c = me.keyPrefix)
          => \A key \in DOMAIN storage.items \ OwnKeys(me, storage) :
                /\ key \in DOMAIN storage'.items
                /\ storage'.items[key] = storage.items[key]]_vars

\* clear() of B removed B's entry and kept A's key that contains B's prefix.
C6_Witness ==
    /\ last.op = "clear" /\ last.c = "B."
    /\ BagIn("k", last.list) /\ last.list["k"] = 2
    /\ "A.B.k" \in DOMAIN storage.items
    /\ "B.k" \notin DOMAIN storage.items

\* C7: keys() returns exactly the logical keys of the cache, each once: k is
\* listed iff the backend holds prefix + k.
C7_KeysExact ==
    last.op = "keys" =>
        last.list = SetToBag(LogicalKeys(CacheOf(last.c), storage))

\* C8: no set, get, remove or clear on one cache changes what get, has or
\* keys answer on a cache with another prefix.
C8_NonInterference ==
    [][\A me \in Caches : \A other \in Caches \ {me} :
          (/\ now' = now /\ last'.c = me.keyPrefix
           /\ last'.op \in {"set", "get", "remove", "clear"})
          => (/\ keys(other, storage') = keys(other, storage)
              /\ \A k \in KeysOf(other) :
                    /\ has(other, storage', Str(k)) = has(other, storage, Str(k))
                    /\ get(other, storage', now, Str(k)).ret
                         = get(other, storage, now, Str(k)).ret)]_vars

\* C9: has(k) is true exactly when the backend holds an entry under
\* prefix + k, expired or not, and the entry is still there after has.
C9_HasIgnoresExpiration ==
    /\ \A me \in Caches : \A k \in KeysOf(me) :
          has(me, storage, Str(k)) = Bool(Slot(me, Str(k)) \in DOMAIN storage.items)
    /\ last.op = "has" =>
          last.ret = Bool(Slot(CacheOf(last.c), last.key) \in DOMAIN storage.items)

\* C10: after clear() the backend holds no key with the cache's prefix, and
\* for every key has is false and get is Absent.
C10_ClearRemovesAll ==
    last.op = "clear" =>
        LET me == CacheOf(last.c)
        IN  /\ OwnKeys(me, storage) = {}
            /\ \A k \in KeysOf(me) \cup DOMAIN last.list :
                  /\ has(me, storage, Str(k)) = Bool(FALSE)
                  /\ get(me, storage, now, Str(k)).ret = Undefined

\* C11: remove(k) on a key with no entry raises nothing and leaves the
\* backend as it was: the same keys, stored values and length.
C11_RemoveAbsent ==
    [][\A me \in Caches : \A k \in KeysOf(me) :
          (/\ IsCall("remove") /\ last'.c = me.keyPrefix /\ last'.key = Str(k)
           /\ Slot(me, Str(k)) \notin DOMAIN storage.items)
          => (~IsError(last'.ret) /\ storage' = storage)]_vars

\* The expiration of the entry a cache holds under a key
StoredExpires(me, st, key) == Prop(_fetch_value(me, st, key), "expires")
\* A step that is a successful set(k, v, t) with a number t
IsSetWithTTL(me, k) ==
    /\ IsCall("set") /\ last'.c = me.keyPrefix /\ last'.key = Str(k)
    /\ ~IsError(last'.ret) /\ last'.expires.t = "number"

RECURSIVE ContainsUnstorable(_)
ContainsUnstorable(v) ==
    CASE v.t \in {"function", "regexp", "element"} -> TRUE
      [] v.t = "array"  -> \E i \in DOMAIN v.a : ContainsUnstorable(v.a[i])
      [] v.t = "object" -> \E i \in DOMAIN v.o : ContainsUnstorable(v.o[i])
      [] OTHER          -> FALSE

\* C13: set raises an unsupported-type error when a function, a regular
\* expression or a DOM node is nested in the value, on both kinds of backend.
C13_NestedUnstorable ==
    (/\ last.op = "set" /\ last.key = Str("k")
     /\ last.value.t \in {"array", "object"} /\ ContainsUnstorable(last.value))
    => (IsError(last.ret) /\ last.ret.msg = "Invalid value type")

\* The type tags of the storage format
TypeTags ==
    {Str(s) : s \in {"undefined", "null", "string", "number", "boolean",
                     "date", "array", "object"}}

\* A document with a node whose type tag is missing or not of the format, or
\* whose tag is neither undefined nor null and that has no value
RECURSIVE IsCorrupt(_)
IsCorrupt(node) ==
    \/ ~Ext_isObject(node)
    \/ ~HasOwn(node, "type")
    \/ Prop(node, "type") \notin TypeTags
    \/ Prop(node, "type") \notin {Str("undefined"), Str("null")} /\ ~HasOwn(node, "value")
    \/ /\ Prop(node, "type") = Str("array") /\ Prop(node, "value").t = "array"
       /\ \E i \in DOMAIN Prop(node, "value").a : IsCorrupt(Prop(node, "value").a[i])
    \/ /\ Prop(node, "type") = Str("object") /\ Prop(node, "value").t = "object"
       /\ \E i \in DOMAIN Prop(node, "value").o : IsCorrupt(Prop(node, "value").o[i])

\* C14: get and has on a key whose stored document is corrupt at any node
\* raise an error, and the document stays in the backend unchanged.
C14_StructuralValidation ==
    [][\A me \in Caches : \A k \in KeysOf(me) :
          (/\ IsCall("get") \/ IsCall("has")
           /\ last'.c = me.keyPrefix /\ last'.key = Str(k)
           /\ Slot(me, Str(k)) \in DOMAIN storage.items
           /\ IsCorrupt(Ext_JSON_decode(storage.items[Slot(me, Str(k))])))
          => (IsError(last'.ret) /\ storage' = storage)]_vars

InvalidKey == Raise("Cache key must be a non-empty string")

\* C15: set with a key that is missing, not a string or the empty string
\* raises the invalid-key error, whatever the value and the expiration are,
\* and stores nothing.
C15_KeyValidation ==
    [][(IsCall("set") /\ (last'.key.t # "string" \/ last'.key = Str("")))
       => (last'.ret = InvalidKey /\ storage' = storage)]_vars

\* A set with a number as the key, a function as the value and null as the
\* expiration was refused for its key, an entry being in the backend.
C15_Witness ==
    /\ last.op = "set" /\ last.key = Num(1) /\ last.value = Fn
    /\ last.expires = Null /\ last.ret = InvalidKey
    /\ Slot(ErrCache, Str("k")) \in DOMAIN storage.items

InvalidExpiration ==
    Raise("Cache expiration modifier must be a number of milliseconds or Date object")

\* C16: with a valid key and a storable value, set raises the
\* invalid-expiration error for an expiration that is neither a finite
\* number nor a date, and accepts a finite number, a date and no expiration;
\* with no expiration the stored entry has none.
C16_ExpirationValidation ==
    (last.op = "set" /\ last.key = Str("k") /\ last.value \in Values)
    => LET e == last.expires
       IN  CASE e.t = "undefined" ->
                  /\ last.ret = last.value
                  /\ StoredExpires(CacheOf(last.c), storage, last.key) = Undefined
             [] e.t = "date" -> last.ret = last.value
             [] e.t = "number" /\ e.k = "fin" -> last.ret = last.value
             [] OTHER -> last.ret = InvalidExpiration

\* A set with NaN as the expiration was refused.
C16_Witness ==
    /\ last.op = "set" /\ last.key = Str("k") /\ last.value \in Values
    /\ last.expires = NaN /\ last.ret = InvalidExpiration

InvalidValue == Raise("Cache value must be defined primitive, object or null")
CannotStore(type) == Raise("Cache cannot store " \o type \o " type values")

\* C17: set(k, undefined) raises the invalid-value error, and set(k, v) with
\* a function, a regular expression or a DOM element as v raises an error
\* that names the type; the call stores nothing.
C17_ValueRejection ==
    [][(IsCall("set") /\ last'.key = Str("k")
        /\ last'.value.t \in {"undefined", "function", "regexp", "element"})
       => (/\ last'.ret = IF last'.value.t = "undefined" THEN InvalidValue
                          ELSE CannotStore(last'.value.t)
           /\ storage' = storage)]_vars

\* A regular expression was refused, whatever the expiration, an entry being
\* in the backend.
C17_Witness ==
    /\ last.op = "set" /\ last.key = Str("k") /\ last.value = RegExp
    /\ last.expires = Null /\ last.ret = CannotStore("regexp")
    /\ Slot(ErrCache, Str("k")) \in DOMAIN storage.items

\* C18: of two caches on the in-memory storage, no call on one changes what
\* has, get and keys answer on the other: neither sees the entries of the
\* other, and clear() on one removes no entry of the other.
C18_MemoryNotShared ==
    [][\A me \in MemoryCaches : \A other \in MemoryCaches \ {me} :
          (now' = now /\ last'.id = me.id)
          => (/\ has(other, storage', Str("k")) = has(other, storage, Str("k"))
              /\ get(other, storage', now, Str("k")).ret
                   = get(other, storage, now, Str("k")).ret
              /\ keys(other, storage') = keys(other, storage))]_vars

\* C19: an entry written by set(k, v) with no expiration is returned by
\* get(k) at every clock reading, and get leaves it stored, whatever get, has
\* and keys calls, clock ticks and set and remove calls on other keys came
\* since, as long as no set(k), remove(k) or clear() came.
C19_NoExpirationNoEviction ==
    \A me \in Caches : \A k \in KeysOf(me) :
        LET w == written[Slot(me, Str(k))]
        IN  (w # NoWrite /\ w.expires = Undefined) =>
              \A clock \in 0..(MaxClock + 1) :
                  LET r == get(me, storage, clock, Str(k))
                  IN  r.ret = w.value /\ r.storage = storage

\* At a later clock reading, get has just returned an entry without
\* expiration, and another key of the cache was written since the start.
C19_Witness ==
    /\ now > 0
    /\ last.op = "get" /\ last.c = "A." /\ last.key = Str("k")
    /\ written["A.k"] = [value |-> Str("foo"), expires |-> Undefined]
    /\ last.ret = Str("foo")
    /\ written["A.B.k"] # NoWrite
    /\ "A.k" \in DOMAIN storage.items

\* The backend holds what it held but for one key
LacksOnly(after, before, slot) ==
    /\ after.kind = before.kind
    /\ DOMAIN after.items = DOMAIN before.items \ {slot}
    /\ \A k \in DOMAIN after.items : after.items[k] = before.items[k]
    /\ after.kind = "memory" =>
          /\ after.keys = SelectSeq(before.keys, LAMBDA x : x # slot)
          /\ after.length = before.length - 1

\* C20: has(k) and keys() leave the backend as it is; get(k) changes it only
\* when the entry under k has an expiration before the clock reading, and
\* then the backend loses the key prefix + k and nothing else; an entry that
\* is not expired stays.
C20_ReadsOnlyEvict ==
    [][/\ (IsCall("has") \/ IsCall("keys")) => storage' = storage
       /\ \A me \in Caches : \A k \in KeysOf(me) :
             (IsCall("get") /\ last'.c = me.keyPrefix /\ last'.key = Str(k))
             => IF StoredExpired(me, storage, now, Str(k))
                THEN LacksOnly(storage', storage, Slot(me, Str(k)))
                ELSE storage' = storage]_vars

\* get has just evicted the expired entry of one key, and the entry of
\* another key of the cache is still stored.
C20_Witness ==
    /\ last.op = "get" /\ last.c = "A." /\ last.key = Str("k")
    /\ last.ret = Undefined
    /\ written["A.k"] # NoWrite
    /\ written["A.k"].expires.t = "date" /\ written["A.k"].expires.ms < now
    /\ "A.k" \notin DOMAIN storage.items
    /\ "A.B.k" \in DOMAIN storage.items

\* C21: a successful set(k, ...) or remove(k) leaves every backend key but
\* prefix + k stored with the value it had, foreign keys included, and
\* leaves the answers of get(k2) and has(k2) for every other key k2 of the
\* cache as they were.
C21_SingleKeyFrame ==
    [][\A me \in Caches : \A k \in KeysOf(me) :
          (/\ IsCall("set") \/ IsCall("remove")
           /\ last'.c = me.keyPrefix /\ last'.key = Str(k)
           /\ ~IsError(last'.ret))
          => (/\ DOMAIN storage'.items \ {Slot(me, Str(k))}
                   = DOMAIN storage.items \ {Slot(me, Str(k))}
              /\ \A s \in DOMAIN storage.items \ {Slot(me, Str(k))} :
                    storage'.items[s] = storage.items[s]
              /\ \A k2 \in KeysOf(me) \ {k} :
                    /\ get(me, storage', now, Str(k2)).ret
                         = get(me, storage, now, Str(k2)).ret
                    /\ has(me, storage', Str(k2)) = has(me, storage, Str(k2)))]_vars

\* A set on one key has just succeeded while another key of the cache, a key
\* of the other cache and a foreign key are stored.
C21_Witness ==
    /\ last.op = "set" /\ last.c = "B." /\ last.key = Str("k")
    /\ ~IsError(last.ret)
    /\ "B.k" \in DOMAIN storage.items
    /\ "A.B.k" \in DOMAIN storage.items
    /\ "A.k" \in DOMAIN storage.items
    /\ ForeignKey \in DOMAIN storage.items

\* C22: given the same calls with storable values at the same clock readings,
\* a cache on the in-memory storage and a cache on a string-only backend of
\* its own answer alike call by call: the same value or the same error, and
\* the same set of keys.
C22_BackendKindEquivalence == last.ret.web = last.ret.memory

\* C23: keys() checks no expiration: a keys() call made while an entry whose
\* expiration is before the clock reading is still stored under prefix + k
\* (no get(k), remove(k) or clear() came since the set) lists k.
C23_KeysListExpired ==
    [][\A me \in Caches : \A k \in KeysOf(me) :
          (/\ IsCall("keys") /\ last'.c = me.keyPrefix
           /\ written[Slot(me, Str(k))] # NoWrite
           /\ StoredExpired(me, storage, now, Str(k)))
          => BagIn(k, last'.list)]_vars

\* The tagged form of a value: a node with the type tag and, but for
\* undefined and null, the payload: the number itself when finite and its
\* name otherwise, "true" or "false", the decimal string of a date's epoch
\* milliseconds, the tagged forms of the elements or members.
RECURSIVE TaggedForm(_)
TaggedForm(v) ==
    CASE v.t \in {"undefined", "null"} -> Obj([type |-> Str(v.t)])
      [] v.t = "string"  -> Obj([type |-> Str("string"), value |-> v])
      [] v.t = "number"  ->
            Obj([type |-> Str("number"),
                 value |-> IF v.k = "fin" THEN v ELSE Str(v.k)])
      [] v.t = "boolean" ->
            Obj([type |-> Str("boolean"),
                 value |-> IF v.b THEN Str("true") ELSE Str("false")])
      [] v.t = "date"    ->
            Obj([type |-> Str("date"), value |-> Str(ToString(v.ms))])
      [] v.t = "array"   ->
            Obj([type |-> Str("array"),
                 value |-> Arr([i \in DOMAIN v.a |-> TaggedForm(v.a[i])])])
      [] v.t = "object"  ->
            Obj([type |-> Str("object"),
                 value |-> Obj([i \in DOMAIN v.o |-> TaggedForm(v.o[i])])])

\* C24: on Web Storage, after a successful set(k, v) with no expiration the
\* backend holds under prefix + k the text of the document
\* {type: object, value: {value: S(v), expires: {type: undefined}}}, S(v)
\* the tagged form of v and the expires node without payload; after
\* remove(k) it holds nothing under prefix + k.
C24_StoredDocumentShape ==
    /\ (last.op = "set" /\ ~IsError(last.ret) /\ last.expires = Undefined)
       => /\ Slot(CacheA, last.key) \in DOMAIN storage.items
          /\ storage.items[Slot(CacheA, last.key)]
               = [t |-> "text",
                  json |-> Obj([type |-> Str("object"),
                                value |-> Obj([value |-> TaggedForm(last.value),
                                               expires |-> Obj([type |-> Str("undefined")])])])]
    /\ last.op = "remove"
       => /\ Slot(CacheA, last.key) \notin DOMAIN storage.items
          /\ Storage_getItem(storage, Slot(CacheA, last.key)) = Null

\* The document of an object with a string, a number and a non-finite number
\* as members is stored.
C24_Witness ==
    /\ last.op = "set" /\ last.key = Str("k") /\ ~IsError(last.ret)
    /\ last.value = Obj([answer |-> Num(42), name |-> Str("Quux"), money |-> PosInf])
    /\ "A.k" \in DOMAIN storage.items
    /\ Prop(Prop(Prop(Prop(storage.items["A.k"].json, "value"), "value"), "value"),
            "money") = Obj([type |-> Str("number"), value |-> Str("Infinity")])

\* An entry that a set wrote with an expiration is gone from the backend
\* with no set, remove or clear on its key since: a get found it expired.
Evicted(me, k) ==
    /\ written[Slot(me, Str(k))] # NoWrite
    /\ written[Slot(me, Str(k))].expires.t = "date"
    /\ Slot(me, Str(k)) \notin DOMAIN storage.items

\* C25: once get(k) has found the entry expired, get(k) returns Absent at the
\* clock reading and at every later one, and has(k) is false, until the next
\* set(k).
C25_ExpiredStaysAbsent ==
    \A me \in Caches : \A k \in KeysOf(me) :
        Evicted(me, k) =>
            /\ has(me, storage, Str(k)) = Bool(FALSE)
            /\ \A clock \in now..(MaxClock + 1) :
                  get(me, storage, clock, Str(k)).ret = Undefined

\* C26: on the in-memory storage, after any calls of the cache, length is
\* the number of elements of keys and the number of items, keys has no
\* duplicates, and keys holds exactly the keys that have an item.
C26_MemoryBookkeeping ==
    storage.kind = "memory" =>
        /\ storage.length = Len(storage.keys)
        /\ storage.length = Cardinality(DOMAIN storage.items)
        /\ \A i, j \in DOMAIN storage.keys :
              storage.keys[i] = storage.keys[j] => i = j
        /\ {storage.keys[i] : i \in DOMAIN storage.keys} = DOMAIN storage.items

\* C27: in every state and for every key k of a cache, if get(k) returns a
\* value (anything but undefined, a stored null included) then has(k) is true
\* and k is a member of keys().
C27_GetImpliesHas ==
    \A me \in Caches : \A k \in KeysOf(me) :
        LET r == get(me, storage, now, Str(k)).ret
        IN  (~IsError(r) /\ r # Undefined) =>
                /\ has(me, storage, Str(k)) = Bool(TRUE)
                /\ BagIn(k, keys(me, storage))

====
